---- MODULE Spec2Model ----
(***************************************************************************)
(* Formant synthesis engine of speechWaveGenerator.cpp: NoiseGenerator,    *)
(* FrequencyGenerator, VoiceGenerator, Resonator, the cascade and parallel *)
(* formant generators and SpeechWaveGeneratorImpl::generate.               *)
(*                                                                         *)
(* Every double of the program is a fixed-point integer counted in units   *)
(* of 1/FP (1.0 is FP); products and quotients are rounded toward zero.    *)
(* An angle is counted in turns (one full turn is FP), so that the phase   *)
(* a FrequencyGenerator returns is also the argument of the sine.          *)
(***************************************************************************)
EXTENDS Integers, Sequences, FiniteSets, TLC

VARIABLES
    frameManager,    \* SpeechWaveGeneratorImpl::frameManager is non-NULL
    voiceGenerator,  \* [pitchGen, vibratoGen, aspirationGen, glottisOpen]
    fricGenerator,   \* NoiseGenerator::lastValue of the frication source
    cascade,         \* resonators r1..r6, rN0, rNP (1..8)
    parallel,        \* resonators r1..r6 (1..6)
    pc,              \* "idle" or "loop": position inside generate
    sampleCount,     \* argument of the running / last generate call
    i,               \* loop index of generate
    sampleBuf,       \* the caller's buffer, slots 0..sampleCount-1
    written,         \* slots of sampleBuf that generate has assigned
    got,             \* per slot, what getCurrentFrame returned (0 is NULL)
    loc,             \* locals of the last loop iteration that had a frame
    ticks,           \* number of VoiceGenerator::getNext calls so far
    wraps,           \* number of times the pitch phase wrapped around
    sinceWrap,       \* VoiceGenerator ticks since the last wrap
    lastGap,         \* ticks between the last two wraps (0: no wrap yet)
    res,             \* a Resonator under test
    ref,             \* a reference Resonator that never caches
    resOut,          \* last output of res
    refOut,          \* last output of ref
    resCalls         \* number of resonate calls on res

engineVars == <<frameManager, voiceGenerator, fricGenerator, cascade, parallel>>
callVars == <<pc, sampleCount, i, sampleBuf, written, got, loc>>
obsVars == <<ticks, wraps, sinceWrap, lastGap>>
resVars == <<res, ref, resOut, refOut, resCalls>>
vars == <<engineVars, callVars, obsVars, resVars>>

(***************************************************************************)
(* Arithmetic on doubles.                                                  *)
(***************************************************************************)
FP == 400

Abs(x) == IF x < 0 THEN -x ELSE x

\* x / y for an integral y, rounded toward zero
TDiv(x, y) ==
    IF (x >= 0) = (y > 0) THEN Abs(x) \div Abs(y) ELSE -(Abs(x) \div Abs(y))

Mul(x, y) == TDiv(x * y, FP)

Div(x, y) == TDiv(x * FP, y)

Hz(n) == n * FP

\* fmod(x, 1): the result keeps the sign of x
Fmod1(x) == IF x >= 0 THEN x % FP ELSE -((-x) % FP)

\* sin(2*pi*t) for t in turns: the parabola through the quarter-turn values
SinTurn(t) ==
    LET m == t % FP
        h == FP \div 2
        q == FP \div 4
    IN  IF m <= h THEN TDiv(m * (h - m) * FP, q * q)
        ELSE -TDiv((m - h) * (FP - m) * FP, q * q)

\* cos(2*pi*t) for t in turns
CosTurn(t) == SinTurn(t + FP \div 4)

\* M_PI
PI == TDiv(3142 * FP, 1000)

\* exp(x): second-order approximation, exact at 0 and below 1 for x < 0
Exp(x) ==
    IF x <= 0 THEN TDiv(FP * FP, FP - x + TDiv(x * x, 2 * FP))
    ELSE FP + x + TDiv(x * x, 2 * FP)

SampleRate == 16000

(***************************************************************************)
(* NoiseGenerator and FrequencyGenerator.                                  *)
(***************************************************************************)
\* (double)rand()/RAND_MAX: the draws the model enumerates
RandValues == {0, FP}

\* NoiseGenerator::getNext with the draw rnd: the new lastValue
NoiseGetNext(lastValue, rnd) == rnd + Mul((3 * FP) \div 4, lastValue)

\* mutant of FrequencyGetNext: the phase is accumulated and never wrapped
FrequencyGetNextNoWrap(lastCyclePos, frequency) ==
    TDiv(frequency, SampleRate) + lastCyclePos

\* FrequencyGenerator::getNext: the new lastCyclePos
FrequencyGetNext(lastCyclePos, frequency) ==
    Fmod1(TDiv(frequency, SampleRate) + lastCyclePos)

(***************************************************************************)
(* VoiceGenerator.                                                         *)
(***************************************************************************)
VoiceInit ==
    [pitchGen |-> 0, vibratoGen |-> 0, aspirationGen |-> 0, glottisOpen |-> FALSE]

\* glottisOpen=voice>=frame->glottalOpenQuotient
GlottisOpen(voice, frame) == voice >= frame.glottalOpenQuotient

\* VoiceGenerator::getNext: the new generator state and the returned value
VoiceGetNext(vg, frame, rnd) ==
    LET Vibrato(vibPos) ==
            Mul(Mul(SinTurn(vibPos), (6 * FP) \div 100), frame.vibratoPitchOffset) + FP
        Turbulence(aspiration, open) ==
            IF open
            THEN Mul(Mul(aspiration, frame.voiceTurbulenceAmplitude), FP \div 10)
            ELSE Mul(aspiration, frame.voiceTurbulenceAmplitude)
        Result(vibPos, voice, aspiration, open) ==
            [state |-> [pitchGen |-> voice, vibratoGen |-> vibPos,
                        aspirationGen |-> aspiration, glottisOpen |-> open],
             out |-> Mul((voice * 2 - FP) + Turbulence(aspiration, open),
                         frame.voiceAmplitude)
                     + Mul(aspiration, frame.aspirationAmplitude)]
        WithVoice(vibPos, voice) ==
            Result(vibPos, voice, NoiseGetNext(vg.aspirationGen, rnd),
                   GlottisOpen(voice, frame))
        WithVibrato(vibPos) ==
            WithVoice(vibPos,
                      FrequencyGetNext(vg.pitchGen,
                                       Mul(frame.voicePitch, Vibrato(vibPos))))
    IN  WithVibrato(FrequencyGetNext(vg.vibratoGen, frame.vibratoSpeed))

(***************************************************************************)
(* Resonator.                                                              *)
(***************************************************************************)
\* Resonator::Resonator: frequency, bandwidth, a, b, c are left
\* uninitialized and hold the garbage g
ResonatorInit(anti, g) ==
    [anti |-> anti, setOnce |-> FALSE, frequency |-> g, bandwidth |-> g,
     a |-> g, b |-> g, c |-> g, p1 |-> 0, p2 |-> 0]

\* the coefficient derivation of setParams
Coefficients(anti, frequency, bandwidth) ==
    LET Inverted(a, b, c) == [a |-> a, b |-> Mul(b, -a), c |-> Mul(c, -a)]
        Derived(b, c) ==
            IF anti /\ frequency # 0
            THEN Inverted(Div(FP, FP - b - c), b, c)
            ELSE [a |-> FP - b - c, b |-> b, c |-> c]
        FromRadius(r) ==
            Derived(Mul(Mul(r, CosTurn(TDiv(-frequency, SampleRate))), 2 * FP),
                    -Mul(r, r))
    IN  FromRadius(Exp(TDiv(Mul(-PI, bandwidth), SampleRate)))

\* mutant of SetParams: a change of the bandwidth alone is not noticed
SetParamsFrequencyOnly(r, frequency, bandwidth) ==
    IF ~r.setOnce \/ frequency # r.frequency
    THEN LET Stored(k) ==
                 [r EXCEPT !.frequency = frequency, !.bandwidth = bandwidth,
                           !.a = k.a, !.b = k.b, !.c = k.c, !.setOnce = TRUE]
         IN  Stored(Coefficients(r.anti, frequency, bandwidth))
    ELSE [r EXCEPT !.setOnce = TRUE]

\* Resonator::setParams
SetParams(r, frequency, bandwidth) ==
    IF ~r.setOnce \/ frequency # r.frequency \/ bandwidth # r.bandwidth
    THEN LET Stored(k) ==
                 [r EXCEPT !.frequency = frequency, !.bandwidth = bandwidth,
                           !.a = k.a, !.b = k.b, !.c = k.c, !.setOnce = TRUE]
         IN  Stored(Coefficients(r.anti, frequency, bandwidth))
    ELSE [r EXCEPT !.setOnce = TRUE]

\* Resonator::resonate: the new resonator and the returned value
Resonate(r, in, frequency, bandwidth) ==
    LET Shifted(s, out) ==
            [res |-> [s EXCEPT !.p2 = s.p1, !.p1 = IF s.anti THEN in ELSE out],
             out |-> out]
        Recurrence(s) == Shifted(s, Mul(s.a, in) + Mul(s.b, s.p1) + Mul(s.c, s.p2))
    IN  Recurrence(SetParams(r, frequency, bandwidth))

\* calculateValueAtFadePosition of utils.h: the linear blend of the fade
\* contract, blend(dry, wet, 0) = dry
calculateValueAtFadePosition(oldVal, newVal, curFadeRatio) ==
    oldVal + Mul(newVal - oldVal, curFadeRatio)

\* input/=2.0 of both formant generators
HalfInput(input) == TDiv(input, 2)

(***************************************************************************)
(* CascadeFormantGenerator: resonators 1..6 are r1..r6, 7 is rN0 (the      *)
(* anti-resonator) and 8 is rNP.                                           *)
(***************************************************************************)
CascadeInit(g) == [k \in 1..8 |-> ResonatorInit(k = 7, g)]

\* mutant of CascadeStage: the dry and the resonated value change places
CascadeStageSwapped(acc, k, f, bw, amp) ==
    LET Blended(y) ==
            [res |-> [acc.res EXCEPT ![k] = y.res],
             out |-> calculateValueAtFadePosition(y.out, acc.out, amp)]
    IN  Blended(Resonate(acc.res[k], acc.out, f, bw))

\* one series stage: output=calculateValueAtFadePosition(output,
\* rK.resonate(output,f,bw),amp)
CascadeStage(acc, k, f, bw, amp) ==
    LET Blended(y) ==
            [res |-> [acc.res EXCEPT ![k] = y.res],
             out |-> calculateValueAtFadePosition(acc.out, y.out, amp)]
    IN  Blended(Resonate(acc.res[k], acc.out, f, bw))

\* CascadeFormantGenerator::getNext
CascadeGetNext(cas, frame, glottisOpen, input) ==
    LET s0 == [res |-> cas, out |-> HalfInput(input)]
        s1 == IF glottisOpen
              THEN CascadeStage(s0, 1, frame.cf1 + frame.dcf1,
                                frame.cb1 + frame.dcb1, frame.ca1)
              ELSE CascadeStage(s0, 1, frame.cf1, frame.cb1, frame.ca1)
        s2 == CascadeStage(s1, 2, frame.cf2, frame.cb2, frame.ca2)
        s3 == CascadeStage(s2, 3, frame.cf3, frame.cb3, frame.ca3)
        s4 == CascadeStage(s3, 4, frame.cf4, frame.cb4, frame.ca4)
        s5 == CascadeStage(s4, 5, frame.cf5, frame.cb5, frame.ca5)
        s6 == CascadeStage(s5, 6, frame.cf6, frame.cb6, frame.ca6)
        s7 == CascadeStage(s6, 7, frame.cfN0, frame.cbN0, frame.caN0)
    IN  CascadeStage(s7, 8, frame.cfNP, frame.cbNP, frame.caNP)

(***************************************************************************)
(* ParallelFormantGenerator.                                               *)
(***************************************************************************)
ParallelInit(g) == [k \in 1..6 |-> ResonatorInit(FALSE, g)]

\* one parallel branch: output+=calculateValueAtFadePosition(input,
\* rK.resonate(input,f,bw)-input,amp)
ParallelStage(acc, k, input, f, bw, amp) ==
    LET Added(y) ==
            [res |-> [acc.res EXCEPT ![k] = y.res],
             out |-> acc.out
                     + calculateValueAtFadePosition(input, y.out - input, amp)]
    IN  Added(Resonate(acc.res[k], input, f, bw))

\* ParallelFormantGenerator::getNext
ParallelGetNext(par, frame, input0) ==
    LET Branches(input) ==
            LET s0 == [res |-> par, out |-> input]
                s1 == ParallelStage(s0, 1, input, frame.pf1, frame.pb1, frame.pa1)
                s2 == ParallelStage(s1, 2, input, frame.pf2, frame.pb2, frame.pa2)
                s3 == ParallelStage(s2, 3, input, frame.pf3, frame.pb3, frame.pa3)
                s4 == ParallelStage(s3, 4, input, frame.pf4, frame.pb4, frame.pa4)
                s5 == ParallelStage(s4, 5, input, frame.pf5, frame.pb5, frame.pa5)
            IN  ParallelStage(s5, 6, input, frame.pf6, frame.pb6, frame.pa6)
    IN  Branches(HalfInput(input0))

(***************************************************************************)
(* Frames (speechPlayer_frame_t) and the frame source.                     *)
(***************************************************************************)
ZeroFrame ==
    [voicePitch |-> 0, vibratoPitchOffset |-> 0, vibratoSpeed |-> 0,
     voiceTurbulenceAmplitude |-> 0, glottalOpenQuotient |-> 0,
     voiceAmplitude |-> 0, aspirationAmplitude |-> 0,
     cf1 |-> 0, cf2 |-> 0, cf3 |-> 0, cf4 |-> 0, cf5 |-> 0, cf6 |-> 0,
     cfN0 |-> 0, cfNP |-> 0,
     cb1 |-> 0, cb2 |-> 0, cb3 |-> 0, cb4 |-> 0, cb5 |-> 0, cb6 |-> 0,
     cbN0 |-> 0, cbNP |-> 0,
     ca1 |-> 0, ca2 |-> 0, ca3 |-> 0, ca4 |-> 0, ca5 |-> 0, ca6 |-> 0,
     caN0 |-> 0, caNP |-> 0,
     fricationAmplitude |-> 0,
     pf1 |-> 0, pf2 |-> 0, pf3 |-> 0, pf4 |-> 0, pf5 |-> 0, pf6 |-> 0,
     pb1 |-> 0, pb2 |-> 0, pb3 |-> 0, pb4 |-> 0, pb5 |-> 0, pb6 |-> 0,
     pa1 |-> 0, pa2 |-> 0, pa3 |-> 0, pa4 |-> 0, pa5 |-> 0, pa6 |-> 0,
     dcf1 |-> 0, dcb1 |-> 0, gain |-> 0]

\* formant frequencies and bandwidths of a vowel, amplitudes left at 0
Formants ==
    [cf1 |-> Hz(500), cf2 |-> Hz(1500), cf3 |-> Hz(2500), cf4 |-> Hz(3500),
     cf5 |-> Hz(4000), cf6 |-> Hz(5000), cfN0 |-> Hz(4000), cfNP |-> Hz(250),
     cb1 |-> Hz(60), cb2 |-> Hz(90), cb3 |-> Hz(150), cb4 |-> Hz(200),
     cb5 |-> Hz(200), cb6 |-> Hz(1000), cbN0 |-> Hz(100), cbNP |-> Hz(100),
     pf1 |-> Hz(500), pf2 |-> Hz(1500), pf3 |-> Hz(2500), pf4 |-> Hz(3500),
     pf5 |-> Hz(4000), pf6 |-> Hz(5000),
     pb1 |-> Hz(60), pb2 |-> Hz(90), pb3 |-> Hz(150), pb4 |-> Hz(200),
     pb5 |-> Hz(200), pb6 |-> Hz(1000),
     dcf1 |-> Hz(100), dcb1 |-> Hz(40)]

\* every cascade amplitude at w
CascadeAmps(w) ==
    [ca1 |-> w, ca2 |-> w, ca3 |-> w, ca4 |-> w, ca5 |-> w, ca6 |-> w,
     caN0 |-> w, caNP |-> w]

\* every parallel amplitude at w
ParallelAmps(w) ==
    [pa1 |-> w, pa2 |-> w, pa3 |-> w, pa4 |-> w, pa5 |-> w, pa6 |-> w]

\* the steady frame of the end-to-end scenario
SteadyFrame ==
    [voicePitch |-> Hz(120), voiceAmplitude |-> FP, gain |-> FP,
     glottalOpenQuotient |-> FP \div 2] @@ Formants @@ ZeroFrame

\* gain 0, every other amplitude on, and a vibrato deep enough to make the
\* vibrato factor negative
MutedFrame ==
    [voicePitch |-> Hz(4000), vibratoSpeed |-> Hz(12000),
     vibratoPitchOffset |-> 20 * FP, voiceAmplitude |-> FP,
     aspirationAmplitude |-> FP, voiceTurbulenceAmplitude |-> FP,
     fricationAmplitude |-> FP, glottalOpenQuotient |-> FP \div 2]
    @@ CascadeAmps(FP) @@ ParallelAmps(FP) @@ Formants @@ ZeroFrame

\* a large positive gain
LoudFrame ==
    [voicePitch |-> Hz(4000), voiceAmplitude |-> FP, aspirationAmplitude |-> FP,
     fricationAmplitude |-> FP, glottalOpenQuotient |-> FP \div 2,
     gain |-> 100 * FP]
    @@ CascadeAmps(FP) @@ ParallelAmps(FP) @@ Formants @@ ZeroFrame

\* a large negative gain
LoudNegFrame == [gain |-> -(100 * FP)] @@ LoudFrame

\* every formant amplitude 0, voice, aspiration and frication on
DryFrame ==
    [voicePitch |-> Hz(2000), voiceAmplitude |-> FP, aspirationAmplitude |-> FP,
     voiceTurbulenceAmplitude |-> FP, fricationAmplitude |-> FP,
     glottalOpenQuotient |-> FP \div 4, gain |-> FP] @@ Formants @@ ZeroFrame

\* the frames the frame source hands out; getCurrentFrame returns one of
\* them by its index, or NULL (0)
FrameTable ==
    <<MutedFrame, LoudFrame, LoudNegFrame, DryFrame>>

FrameIds == 1..Len(FrameTable)

\* the frame a non-NULL return of getCurrentFrame points to; SteadyId is the
\* steady frame of the end-to-end scenario
SteadyId == Len(FrameTable) + 1

FrameOf(fid) == IF fid = SteadyId THEN SteadyFrame ELSE FrameTable[fid]

(***************************************************************************)
(* SpeechWaveGeneratorImpl.                                                *)
(***************************************************************************)
MaxTicks == 2

SteadySamples == SampleRate

\* what an uninitialized double or an unwritten sample slot may hold
GarbageValues == {0, 7}

Min(x, y) == IF x < y THEN x ELSE y

Max(x, y) == IF x > y THEN x ELSE y

SampleScale == 4000

SampleMax == 32000

\* mutant of Clamp: the lower rail is forgotten
ClampUpperOnly(scaled) == Min(scaled, SampleMax * FP)

\* max(min(out*4000,32000),-32000)
Clamp(scaled) == Max(Min(scaled, SampleMax * FP), -(SampleMax * FP))

\* the store into sample::value, an integer: the fraction is dropped
ToSample(v) == TDiv(v, FP)

\* mutant of Mix: the gain reaches the cascade branch alone
MixCascadeOnly(cascadeOut, parallelOut, gain) == Mul(cascadeOut, gain) + parallelOut

\* (cascadeOut+parallelOut)*frame->gain
Mix(cascadeOut, parallelOut, gain) == Mul(cascadeOut + parallelOut, gain)

\* mutant of SilentSlot: the slot of a tick without a frame is skipped
SilentSlotSkipped(buf, k) == buf

\* sampleBuf[i].value=0
SilentSlot(buf, k) == [buf EXCEPT ![k] = 0]

NoLocals ==
    [voice |-> 0, cascadeOut |-> 0, fric |-> 0, parallelOut |-> 0, out |-> 0,
     scaled |-> 0]

\* the body of the loop of generate for a frame: every new value
FrameTick(frame, rndAsp, rndFric) ==
    LET Stored(v, cas, noise, fric, par, out) ==
            [voiceGenerator |-> v.state, cascade |-> cas.res,
             fricGenerator |-> noise, parallel |-> par.res,
             loc |-> [voice |-> v.out, cascadeOut |-> cas.out, fric |-> fric,
                      parallelOut |-> par.out, out |-> out,
                      scaled |-> out * SampleScale],
             value |-> ToSample(Clamp(out * SampleScale))]
        Mixed(v, cas, noise, fric, par) ==
            Stored(v, cas, noise, fric, par, Mix(cas.out, par.out, frame.gain))
        WithFric(v, cas, noise, fric) ==
            Mixed(v, cas, noise, fric, ParallelGetNext(parallel, frame, fric))
        WithCascade(v, cas, noise) ==
            WithFric(v, cas, noise, Mul(noise, frame.fricationAmplitude))
        WithVoice(v) ==
            WithCascade(v,
                        CascadeGetNext(cascade, frame, v.state.glottisOpen, v.out),
                        NoiseGetNext(fricGenerator, rndFric))
    IN  WithVoice(VoiceGetNext(voiceGenerator, frame, rndAsp))

EngineInit ==
    /\ frameManager = FALSE
    /\ voiceGenerator = VoiceInit
    /\ fricGenerator = 0
    /\ \E g \in GarbageValues :
          /\ cascade = CascadeInit(g)
          /\ parallel = ParallelInit(g)
    /\ pc = "idle"
    /\ sampleCount = 0
    /\ i = 0
    /\ sampleBuf = <<>>
    /\ written = {}
    /\ got = <<>>
    /\ loc = NoLocals
    /\ ticks = 0
    /\ wraps = 0
    /\ sinceWrap = 0
    /\ lastGap = 0

ResIdle ==
    /\ res = ResonatorInit(FALSE, 0)
    /\ ref = ResonatorInit(FALSE, 0)
    /\ resOut = 0
    /\ refOut = 0
    /\ resCalls = 0

\* setFrameManager: the pointer may be NULL
SetFrameManager ==
    /\ pc = "idle"
    /\ \E fm \in BOOLEAN : frameManager' = fm
    /\ UNCHANGED <<voiceGenerator, fricGenerator, cascade, parallel>>
    /\ UNCHANGED <<callVars, obsVars, resVars>>

\* entry of generate(count, buf) on a buffer of count slots holding garbage:
\* if(!frameManager) return
Call(count) ==
    /\ pc = "idle"
    /\ sampleCount' = count
    /\ i' = 0
    /\ \E g \in GarbageValues : sampleBuf' = [k \in 0..(count - 1) |-> g]
    /\ written' = {}
    /\ got' = <<>>
    /\ pc' = IF frameManager THEN "loop" ELSE "idle"
    /\ UNCHANGED <<engineVars, loc, obsVars, resVars>>

\* one iteration of the loop of generate, getCurrentFrame returning the frame
\* fid (0: NULL) and rand() the two draws
Tick(fid, rndAsp, rndFric) ==
    /\ pc = "loop"
    /\ i < sampleCount
    /\ got' = (i :> fid) @@ got
    /\ written' = written \cup {i}
    /\ i' = i + 1
    /\ IF fid = 0
       THEN /\ sampleBuf' = SilentSlot(sampleBuf, i)
            /\ UNCHANGED <<engineVars, loc, obsVars>>
       ELSE LET Stored(t, wrapped) ==
                    /\ sampleBuf' = [sampleBuf EXCEPT ![i] = t.value]
                    /\ voiceGenerator' = t.voiceGenerator
                    /\ fricGenerator' = t.fricGenerator
                    /\ cascade' = t.cascade
                    /\ parallel' = t.parallel
                    /\ loc' = t.loc
                    /\ ticks' = ticks + 1
                    /\ wraps' = IF wrapped THEN wraps + 1 ELSE wraps
                    /\ sinceWrap' = IF wrapped THEN 0 ELSE sinceWrap + 1
                    /\ lastGap' = IF wrapped THEN sinceWrap + 1 ELSE lastGap
                    /\ UNCHANGED frameManager
                Observed(t) ==
                    Stored(t, t.voiceGenerator.pitchGen < voiceGenerator.pitchGen)
            IN  Observed(FrameTick(FrameOf(fid), rndAsp, rndFric))
    /\ UNCHANGED <<pc, sampleCount, resVars>>

\* the loop of generate ends and generate returns
Return ==
    /\ pc = "loop"
    /\ i >= sampleCount
    /\ pc' = "idle"
    /\ UNCHANGED <<engineVars, sampleCount, i, sampleBuf, written, got, loc>>
    /\ UNCHANGED <<obsVars, resVars>>

\* generate(count, buf) for any count the cap on synthesized ticks leaves room for
GenerateCall ==
    \E count \in 0..MaxTicks :
        /\ ticks + count <= MaxTicks
        /\ Call(count)

GenerateTick ==
    \/ Tick(0, 0, 0)
    \/ \E fid \in FrameIds, rndAsp \in RandValues, rndFric \in RandValues :
          Tick(fid, rndAsp, rndFric)

GenerateReturn == Return

Init == EngineInit /\ ResIdle

Next == SetFrameManager \/ GenerateCall \/ GenerateTick \/ GenerateReturn

Spec == Init /\ [][Next]_vars

(***************************************************************************)
(* The end-to-end scenario: a frame source that always returns the steady  *)
(* frame, a silent random source, and generate called for SteadyChunk      *)
(* samples at a time until SteadySamples samples have been generated.      *)
(***************************************************************************)
SteadyInit ==
    /\ EngineInit
    /\ ResIdle

SteadySetFrameManager ==
    /\ ~frameManager
    /\ frameManager' = TRUE
    /\ pc = "idle"
    /\ UNCHANGED <<voiceGenerator, fricGenerator, cascade, parallel>>
    /\ UNCHANGED <<callVars, obsVars, resVars>>

SteadyChunk == 128

SteadyCall ==
    /\ frameManager
    /\ ticks < SteadySamples
    /\ Call(SteadyChunk)

SteadyTick == Tick(SteadyId, 0, 0)

SteadyReturn == Return

SteadyNext == SteadySetFrameManager \/ SteadyCall \/ SteadyTick \/ SteadyReturn

SpecSteady == SteadyInit /\ [][SteadyNext]_vars

(***************************************************************************)
(* One Resonator driven by arbitrary resonate calls, next to a reference   *)
(* resonator that derives its coefficients anew on every call.             *)
(***************************************************************************)
MaxResCalls == 3

ResInputs == {FP, -FP}

ResFrequencies == {0, Hz(1000), Hz(4000)}

ResBandwidths == {Hz(60), Hz(1000)}

\* the reference: the recurrence of resonate on coefficients derived from
\* this call's (frequency, bandwidth)
RefResonate(r, in, frequency, bandwidth) ==
    LET Shifted(k, out) ==
            [res |-> [r EXCEPT !.frequency = frequency, !.bandwidth = bandwidth,
                               !.a = k.a, !.b = k.b, !.c = k.c, !.setOnce = TRUE,
                               !.p2 = r.p1, !.p1 = IF r.anti THEN in ELSE out],
             out |-> out]
        Recurrence(k) == Shifted(k, Mul(k.a, in) + Mul(k.b, r.p1) + Mul(k.c, r.p2))
    IN  Recurrence(Coefficients(r.anti, frequency, bandwidth))

ResInit ==
    /\ EngineInit
    /\ \E anti \in BOOLEAN, g \in GarbageValues \cup ResFrequencies :
          /\ res = ResonatorInit(anti, g)
          /\ ref = ResonatorInit(anti, g)
    /\ resOut = 0
    /\ refOut = 0
    /\ resCalls = 0

\* res.resonate(in, frequency, bandwidth), mirrored on the reference
ResResonate ==
    /\ resCalls < MaxResCalls
    /\ \E in \in ResInputs, frequency \in ResFrequencies,
          bandwidth \in ResBandwidths :
          LET Stored(y, z) ==
                  /\ res' = y.res
                  /\ resOut' = y.out
                  /\ ref' = z.res
                  /\ refOut' = z.out
          IN  Stored(Resonate(res, in, frequency, bandwidth),
                     RefResonate(ref, in, frequency, bandwidth))
    /\ resCalls' = resCalls + 1
    /\ UNCHANGED <<engineVars, callVars, obsVars>>

ResNext == ResResonate

SpecRes == ResInit /\ [][ResNext]_vars

(***************************************************************************)
(* Properties.                                                             *)
(***************************************************************************)
\* the last iteration of the loop had a frame: loc holds its locals and
\* slot i-1 its sample
LastHadFrame == i > 0 /\ (i - 1) \in DOMAIN got /\ got[i - 1] # 0

LastFrame == FrameOf(got[i - 1])

AllCascadeAmpsZero(frame) ==
    /\ frame.ca1 = 0 /\ frame.ca2 = 0 /\ frame.ca3 = 0 /\ frame.ca4 = 0
    /\ frame.ca5 = 0 /\ frame.ca6 = 0 /\ frame.caN0 = 0 /\ frame.caNP = 0

AllParallelAmpsZero(frame) ==
    /\ frame.pa1 = 0 /\ frame.pa2 = 0 /\ frame.pa3 = 0
    /\ frame.pa4 = 0 /\ frame.pa5 = 0 /\ frame.pa6 = 0

\* C1: once generate(count, buffer) has returned, every slot 0..count-1 of
\* the buffer has been written, also on an engine without a frame source.
C1_EveryCallWritesCount ==
    pc = "idle" => written = 0..(sampleCount - 1)

\* C2: every sample generate writes lies in [-32000, 32000]; a mixed value
\* times 4000 above 32000 is written as 32000, one below -32000 as -32000,
\* and one in range as itself (as the integer the sample holds).
C2_SamplesClamped ==
    /\ \A k \in written : sampleBuf[k] \in (-SampleMax)..SampleMax
    /\ LastHadFrame =>
          LET v == loc.scaled
              smp == sampleBuf[i - 1]
          IN  /\ v > SampleMax * FP => smp = SampleMax
              /\ v < -(SampleMax * FP) => smp = -SampleMax
              /\ (v <= SampleMax * FP /\ v >= -(SampleMax * FP)) =>
                    smp = ToSample(v)

\* C2 witness: one call whose buffer holds a sample on each rail, both
\* clamped from frames with a gain of large magnitude
C2_Witness ==
    /\ LastHadFrame
    /\ loc.scaled < -(SampleMax * FP)
    /\ sampleBuf[i - 1] = -SampleMax
    /\ \E k \in written : got[k] # 0 /\ sampleBuf[k] = SampleMax

\* C3: every tick on which the frame source returned NULL wrote 0 at that
\* tick's index, so a call whose ticks all got NULL leaves count zeros; a
\* tick with a frame wrote the synthesized sample.
C3_NullFrameIsSilence ==
    /\ \A k \in DOMAIN got : k \in written /\ (got[k] = 0 => sampleBuf[k] = 0)
    /\ (pc = "idle" /\ DOMAIN got = 0..(sampleCount - 1)
        /\ \A k \in DOMAIN got : got[k] = 0) =>
          \A k \in 0..(sampleCount - 1) : sampleBuf[k] = 0
    /\ LastHadFrame => sampleBuf[i - 1] = ToSample(Clamp(loc.scaled))

\* C3 witness: a returned call of two or more samples, every tick NULL
C3_Witness ==
    /\ pc = "idle"
    /\ sampleCount >= 2
    /\ DOMAIN got = 0..(sampleCount - 1)
    /\ \A k \in DOMAIN got : got[k] = 0 /\ sampleBuf[k] = 0

\* C4: with pa1..pa6 all 0, ParallelFormantGenerator::getNext returns its
\* halved input.
C4_ParallelPassthrough ==
    (LastHadFrame /\ AllParallelAmpsZero(LastFrame)) =>
        loc.parallelOut = TDiv(loc.fric, 2)

\* C5: with ca1..ca6, caN0 and caNP all 0, CascadeFormantGenerator::getNext
\* returns its halved input, glottis open or closed, whatever the
\* resonators remember.
C5_CascadePassthrough ==
    (LastHadFrame /\ AllCascadeAmpsZero(LastFrame)) =>
        loc.cascadeOut = TDiv(loc.voice, 2)

\* C5 witness: a dry frame passed through with the glottis open, a non-zero
\* input and resonators that remember an earlier tick
C5_Witness ==
    /\ LastHadFrame
    /\ AllCascadeAmpsZero(LastFrame)
    /\ ticks >= 2
    /\ voiceGenerator.glottisOpen
    /\ TDiv(loc.voice, 2) # 0
    /\ loc.cascadeOut = TDiv(loc.voice, 2)
    /\ cascade[1].p2 # 0
    /\ cascade[8].p2 # 0

\* C6: in the steady scenario glottisOpen is true on the ticks of the first
\* half of a pitch cycle (phase below 0.5) and false on those of the second.
C6_OpenInFirstHalf ==
    ticks > 0 => (voiceGenerator.glottisOpen <=> voiceGenerator.pitchGen < FP \div 2)

C9_CacheIsTransparent ==
    resCalls > 0 =>
        /\ resOut = refOut
        /\ res.a = ref.a /\ res.b = ref.b /\ res.c = ref.c
        /\ res.frequency = ref.frequency /\ res.bandwidth = ref.bandwidth
        /\ res.p1 = ref.p1 /\ res.p2 = ref.p2

\* C9 witness: a third call on an anti-resonator, with a non-zero output
C9_Witness ==
    /\ resCalls >= 3
    /\ res.anti
    /\ res.frequency # 0
    /\ resOut # 0
    /\ resOut = refOut

\* C10: the phase a FrequencyGenerator stores and returns lies in [0,1).
C10_PhaseInUnitInterval ==
    /\ voiceGenerator.pitchGen \in 0..(FP - 1)
    /\ voiceGenerator.vibratoGen \in 0..(FP - 1)

====
